---- MODULE Spec2Model ----
(***************************************************************************)
(* Intraday analysis engine (analyzeIntradayData and its detectors) and    *)
(* the Home page's fetch effect.                                           *)
(*                                                                         *)
(* Every `number` of the program is an IEEE-754 binary64 value.  The       *)
(* arithmetic below is bit-accurate for finite, normal values: a number is *)
(* a sign, a 53-bit significand held as a little-endian sequence of 15-bit *)
(* limbs, and a binary exponent; every operation computes the exact result *)
(* and rounds it to nearest, ties to even.  Infinities, NaN, subnormals    *)
(* and the sign of zero are outside the model: the inputs are positive     *)
(* prices of ordinary magnitude, which never produce them.                 *)
(***************************************************************************)
EXTENDS Integers, Sequences, FiniteSets, TLC

----------------------------------------------------------------------------
(* Natural numbers of any size: little-endian limbs, no high zero limb.    *)

LimbBase == 2^15

Limb(x, i) == IF i >= 1 /\ i <= Len(x) THEN x[i] ELSE 0

RECURSIVE BTrim(_)
BTrim(x) ==
  IF x = <<>> THEN x
  ELSE IF x[Len(x)] = 0 THEN BTrim(SubSeq(x, 1, Len(x) - 1)) ELSE x

RECURSIVE BAddC(_, _, _, _)
BAddC(a, b, i, c) ==
  IF i > Len(a) /\ i > Len(b) THEN (IF c = 0 THEN <<>> ELSE <<c>>)
  ELSE LET s == Limb(a, i) + Limb(b, i) + c
       IN  <<s % LimbBase>> \o BAddC(a, b, i + 1, s \div LimbBase)

BAdd(a, b) == BAddC(a, b, 1, 0)

RECURSIVE BSubC(_, _, _, _)
BSubC(a, b, i, br) ==
  IF i > Len(a) THEN <<>>
  ELSE LET d == Limb(a, i) - Limb(b, i) - br
       IN  <<d % LimbBase>> \o BSubC(a, b, i + 1, IF d < 0 THEN 1 ELSE 0)

\* a - b for a >= b
BSub(a, b) == BTrim(BSubC(a, b, 1, 0))

RECURSIVE BCmpAt(_, _, _)
BCmpAt(a, b, i) ==
  IF i = 0 THEN 0
  ELSE IF a[i] > b[i] THEN 1
  ELSE IF a[i] < b[i] THEN -1
  ELSE BCmpAt(a, b, i - 1)

BCmp(a, b) ==
  IF Len(a) > Len(b) THEN 1
  ELSE IF Len(a) < Len(b) THEN -1
  ELSE BCmpAt(a, b, Len(a))

RECURSIVE BMulSC(_, _, _, _)
BMulSC(a, k, i, c) ==
  IF i > Len(a) THEN (IF c = 0 THEN <<>> ELSE <<c>>)
  ELSE LET p == a[i] * k + c
       IN  <<p % LimbBase>> \o BMulSC(a, k, i + 1, p \div LimbBase)

\* a * k for 0 <= k < LimbBase
BMulSmall(a, k) == IF k = 0 THEN <<>> ELSE BMulSC(a, k, 1, 0)

BShiftLimb(a) == IF a = <<>> THEN a ELSE <<0>> \o a

RECURSIVE BMulAt(_, _, _)
BMulAt(a, b, j) ==
  IF j > Len(b) THEN <<>>
  ELSE BAdd(BMulSmall(a, b[j]), BShiftLimb(BMulAt(a, b, j + 1)))

BMul(a, b) == BMulAt(a, b, 1)

RECURSIVE Zeros(_)
Zeros(w) == IF w = 0 THEN <<>> ELSE <<0>> \o Zeros(w - 1)

BShl(a, n) ==
  IF a = <<>> THEN a
  ELSE Zeros(n \div 15) \o BMulSmall(a, 2^(n % 15))

BShr(a, n) ==
  LET w == n \div 15
      r == n % 15
      x == IF w >= Len(a) THEN <<>> ELSE SubSeq(a, w + 1, Len(a))
  IN  BTrim([i \in 1..Len(x) |->
               (x[i] \div 2^r) + (Limb(x, i + 1) % 2^r) * 2^(15 - r)])

RECURSIVE SmallBitLen(_)
SmallBitLen(v) == IF v = 0 THEN 0 ELSE 1 + SmallBitLen(v \div 2)

BBitLen(a) ==
  IF a = <<>> THEN 0 ELSE 15 * (Len(a) - 1) + SmallBitLen(a[Len(a)])

\* bit i (bit 0 is the lowest)
BBit(a, i) == (Limb(a, (i \div 15) + 1) \div 2^(i % 15)) % 2

\* the n lowest bits are all zero
BLowZero(a, n) ==
  /\ \A i \in 1..(n \div 15) : Limb(a, i) = 0
  /\ Limb(a, (n \div 15) + 1) % 2^(n % 15) = 0

RECURSIVE BFromNat(_)
BFromNat(v) ==
  IF v = 0 THEN <<>> ELSE <<v % LimbBase>> \o BFromNat(v \div LimbBase)

----------------------------------------------------------------------------
(* binary64: [s, m, e] is (-1)^s * m * 2^e with 2^52 <= m < 2^53, or Zero. *)

Precision == 53

Zero == [s |-> 0, m |-> <<>>, e |-> 0]

\* +Infinity, only ever the initial value of a running minimum: it is compared
\* by identity and never enters the arithmetic
Infinity == [s |-> 0, m |-> <<>>, e |-> 1]

\* q one higher when the bits shifted out are more than half a unit of q,
\* or exactly half and q is odd
NearestEven(q, half, more) ==
  IF half /\ (more \/ q[1] % 2 = 1) THEN BAdd(q, <<1>>) ELSE q

\* a significand that rounding carried into a 54th bit drops its low bit
Renormalize(s, q, E) ==
  IF BBitLen(q) > Precision THEN [s |-> s, m |-> BShr(q, 1), e |-> E + 1]
  ELSE [s |-> s, m |-> q, e |-> E]

\* Round for M of L > 0 bits
RoundBits(s, M, E, sticky, L) ==
  IF L <= Precision
  THEN [s |-> s, m |-> BShl(M, Precision - L), e |-> E - (Precision - L)]
  ELSE Renormalize(s,
         NearestEven(BShr(M, L - Precision),
                     BBit(M, L - Precision - 1) = 1,
                     sticky \/ ~BLowZero(M, L - Precision - 1)),
         E + (L - Precision))

\* the exact value (-1)^s * M * 2^E (plus a sticky remainder below the last
\* bit of M), rounded to nearest, ties to even
Round(s, M, E, sticky) ==
  IF M = <<>> THEN Zero ELSE RoundBits(s, M, E, sticky, BBitLen(M))

FromInt(v) ==
  IF v >= 0 THEN Round(0, BFromNat(v), 0, FALSE)
  ELSE Round(1, BFromNat(-v), 0, FALSE)

FNeg(a) == IF a.m = <<>> THEN a ELSE [a EXCEPT !.s = 1 - a.s]

FAbs(a) == [a EXCEPT !.s = 0]

FSign(a) == IF a.m = <<>> THEN 0 ELSE IF a.s = 0 THEN 1 ELSE -1

\* comparison of magnitudes of two non-zero values
MagCmp(a, b) ==
  IF a.e > b.e THEN 1 ELSE IF a.e < b.e THEN -1 ELSE BCmp(a.m, b.m)

\* -1, 0, 1 as a < b, a = b, a > b
FCmp(a, b) ==
  IF FSign(a) # FSign(b) THEN (IF FSign(a) < FSign(b) THEN -1 ELSE 1)
  ELSE IF FSign(a) = 0 THEN 0
  ELSE FSign(a) * MagCmp(a, b)

FLt(a, b) == FCmp(a, b) < 0
FLe(a, b) == FCmp(a, b) <= 0
FGt(a, b) == FCmp(a, b) > 0
FGe(a, b) == FCmp(a, b) >= 0

FMul(a, b) ==
  IF a.m = <<>> \/ b.m = <<>> THEN Zero
  ELSE Round((a.s + b.s) % 2, BMul(a.m, b.m), a.e + b.e, FALSE)

\* (-1)^sa * x * 2^e0 + (-1)^sb * y * 2^e0, where c compares x with y
AddAligned(sa, x, sb, y, e0, c) ==
  Round(IF sa = sb \/ c > 0 THEN sa ELSE sb,
        IF sa = sb THEN BAdd(x, y)
        ELSE IF c > 0 THEN BSub(x, y) ELSE BSub(y, x),
        e0, FALSE)

\* both significands brought to the exponent e0
AlignedSum(sa, x, sb, y, e0) == AddAligned(sa, x, sb, y, e0, BCmp(x, y))

FAdd(a, b) ==
  IF a.m = <<>> THEN b
  ELSE IF b.m = <<>> THEN a
  ELSE IF a.e < b.e
  THEN AlignedSum(a.s, a.m, b.s, BShl(b.m, b.e - a.e), a.e)
  ELSE AlignedSum(a.s, BShl(a.m, a.e - b.e), b.s, b.m, b.e)

FSub(a, b) == FAdd(a, FNeg(b))

\* the largest q with q * D <= R, counted down from the estimate q
RECURSIVE FixDigit(_, _, _)
FixDigit(R, D, q) ==
  IF BCmp(BMulSmall(D, q), R) > 0 THEN FixDigit(R, D, q - 1) ELSE q

\* one digit of long division: floor(R / D) for R < D * LimbBase, where the
\* top limb of D is at least LimbBase / 2, estimated from the leading limbs
QuotientDigit(R, D) ==
  LET n    == Len(D)
      est  == (Limb(R, n + 1) * LimbBase + Limb(R, n)) \div D[n]
  IN  FixDigit(R, D, IF est > LimbBase - 1 THEN LimbBase - 1 ELSE est)

RECURSIVE DivLimbs(_, _, _, _)

\* R1 is the remainder left under the quotient limbs Q1 found so far
DivNext(R1, D, k, Q1) ==
  IF k = 0 THEN [q |-> BTrim(Q1), exact |-> (R1 = <<>>)]
  ELSE DivLimbs(BShiftLimb(R1), D, k - 1, Q1)

\* q is the next quotient limb
DivStep(R, D, k, Q, q) == DivNext(BSub(R, BMulSmall(D, q)), D, k, <<q>> \o Q)

\* long division of R * LimbBase^k by D, R < D * LimbBase: the quotient's
\* limbs and whether the division is exact
DivLimbs(R, D, k, Q) == DivStep(R, D, k, Q, QuotientDigit(R, D))

\* the quotient d.q * 2^E, inexact when the division left a remainder
Quotient(s, d, E) == Round(s, d.q, E, ~d.exact)

\* a / b for b # 0: four limbs (60 bits) of quotient below the binary point,
\* with both significands shifted up so that the divisor's top limb is full
FDiv(a, b) ==
  IF a.m = <<>> THEN Zero
  ELSE Quotient((a.s + b.s) % 2,
                DivLimbs(BShl(a.m, 60 - Precision), BShl(b.m, 60 - Precision),
                         4, <<>>),
                a.e - b.e - 60)

\* the decimal literal n / d (d a power of ten), as the parser reads it
Dec(n, d) == FDiv(FromInt(n), FromInt(d))

----------------------------------------------------------------------------
(* The analysis engine.  Indices are the program's (0-based); At(xs, i) is *)
(* xs[i].  Rendered text (descriptions, toFixed, HH:mm) is not modelled:   *)
(* an insight keeps its id, title and numeric fields, and a narrative is   *)
(* its fixed sentence followed by the numbers the template renders.        *)

At(xs, i) == xs[i + 1]

\* xs.slice(from, to) for 0 <= from
Slice(xs, from, to) ==
  LET hi == IF to > Len(xs) THEN Len(xs) ELSE to
  IN  IF from >= hi THEN <<>> ELSE SubSeq(xs, from + 1, hi)

\* xs.slice(-k)
SliceLast(xs, k) ==
  IF Len(xs) <= k THEN xs ELSE SubSeq(xs, Len(xs) - k + 1, Len(xs))

BIG_MOVE_LOOKBACK == 3
BIG_MOVE_THRESHOLD == Dec(6, 10)

Hundred == FromInt(100)

\* the span itself as the divisor
Smoothing_SpanDivisor(length) == FDiv(FromInt(2), FromInt(length))

\* k = 2 / (length + 1)
Smoothing(length) == FDiv(FromInt(2), FromInt(length + 1))

RECURSIVE EmaLoop(_, _, _)
EmaLoop(points, k, ema) ==
  IF Len(ema) = Len(points) THEN ema
  ELSE LET i == Len(ema)
       IN  EmaLoop(points, k,
             Append(ema, FAdd(FMul(At(points, i).close, k),
                              FMul(At(ema, i - 1), FSub(FromInt(1), k)))))

calculateEMA(points, length) ==
  IF Len(points) = 0 THEN <<>>
  ELSE EmaLoop(points, Smoothing(length), <<At(points, 0).close>>)

HighConfidence == Dec(15, 10)
MediumConfidence == FromInt(1)

toConfidence(change) ==
  IF FGe(FAbs(change), HighConfidence) THEN "high"
  ELSE IF FGe(FAbs(change), MediumConfidence) THEN "medium"
  ELSE "low"

\* the percentage change from base to latest
PctChange(latest, base) == FMul(FDiv(FSub(latest, base), base), Hundred)

\* records a candidate only above the compression detector's 0.8 threshold
Candidate_BreakoutThreshold(i, changePct) ==
  IF FGe(FAbs(changePct), Dec(8, 10))
  THEN << [index |-> i, changePct |-> changePct,
           direction |-> IF FGe(changePct, Zero) THEN "bullish" ELSE "bearish",
           spanStart |-> i - BIG_MOVE_LOOKBACK] >>
  ELSE <<>>

\* the candidate the scan records at index i, if any, given the change there
Candidate(i, changePct) ==
  IF FGe(FAbs(changePct), BIG_MOVE_THRESHOLD)
  THEN << [index |-> i, changePct |-> changePct,
           direction |-> IF FGe(changePct, Zero) THEN "bullish" ELSE "bearish",
           spanStart |-> i - BIG_MOVE_LOOKBACK] >>
  ELSE <<>>

MoveAt(points, i) ==
  Candidate(i, PctChange(At(points, i).close,
                         At(points, i - BIG_MOVE_LOOKBACK).close))

RECURSIVE ScanMoves(_, _, _)
ScanMoves(points, i, moves) ==
  IF i >= Len(points) THEN moves
  ELSE ScanMoves(points, i + 1, moves \o MoveAt(points, i))

\* the comparator of moves.sort: negative when a sorts before b
MoveOrder(a, b) == FSign(FSub(FAbs(b.changePct), FAbs(a.changePct)))

\* x inserted before the elements it ties with
RECURSIVE InsertMove_BeforeEqual(_, _)
InsertMove_BeforeEqual(sorted, x) ==
  IF sorted = <<>> THEN <<x>>
  ELSE IF MoveOrder(Head(sorted), x) >= 0 THEN <<x>> \o sorted
  ELSE <<Head(sorted)>> \o InsertMove_BeforeEqual(Tail(sorted), x)

\* x inserted after every element that does not sort after it
RECURSIVE InsertMove(_, _)
InsertMove(sorted, x) ==
  IF sorted = <<>> THEN <<x>>
  ELSE IF MoveOrder(Head(sorted), x) > 0 THEN <<x>> \o sorted
  ELSE <<Head(sorted)>> \o InsertMove(Tail(sorted), x)

\* Array.prototype.sort is stable: the order of an insertion sort
RECURSIVE SortMoves(_, _)
SortMoves(moves, sorted) ==
  IF moves = <<>> THEN sorted
  ELSE SortMoves(Tail(moves), InsertMove(sorted, Head(moves)))

MAX_BIG_MOVES == 4

BigMoveInsight(move, idx) ==
  [id |-> <<"big-move", move.index>>,
   title |-> <<IF move.direction = "bullish" THEN "Bullish" ELSE "Bearish",
               "impulse #", idx + 1>>,
   confidence |-> toConfidence(move.changePct),
   startIndex |-> move.spanStart,
   endIndex |-> move.index,
   changePct |-> move.changePct,
   direction |-> move.direction]

\* every marker given medium confidence
BigMoveSignal_MediumConfidence(points, move) ==
  [timestamp |-> At(points, move.index).timestamp,
   price |-> At(points, move.index).close,
   label |-> IF move.direction = "bullish" THEN "Momentum Upswing"
             ELSE "Momentum Flush",
   confidence |-> "medium",
   direction |-> move.direction]

\* the marker placed where the move starts
BigMoveSignal_AtSpanStart(points, move) ==
  [timestamp |-> At(points, move.spanStart).timestamp,
   price |-> At(points, move.spanStart).close,
   label |-> IF move.direction = "bullish" THEN "Momentum Upswing"
             ELSE "Momentum Flush",
   confidence |-> toConfidence(move.changePct),
   direction |-> move.direction]

BigMoveSignal(points, move) ==
  [timestamp |-> At(points, move.index).timestamp,
   price |-> At(points, move.index).close,
   label |-> IF move.direction = "bullish" THEN "Momentum Upswing"
             ELSE "Momentum Flush",
   confidence |-> toConfidence(move.changePct),
   direction |-> move.direction]

BigMoveCandidates(points) == ScanMoves(points, BIG_MOVE_LOOKBACK, <<>>)

RankMoves(moves) == SortMoves(moves, <<>>)

TopMoves(points) == Slice(RankMoves(BigMoveCandidates(points)), 0, MAX_BIG_MOVES)

\* the insights and the signal markers of the selected moves
MovesResult(points, topMoves) ==
  [insights |-> [j \in 1..Len(topMoves) |-> BigMoveInsight(topMoves[j], j - 1)],
   signals |-> [j \in 1..Len(topMoves) |-> BigMoveSignal(points, topMoves[j])]]

detectBigMoves(points) == MovesResult(points, TopMoves(points))

MAX_TREND_SHIFTS == 3

\* the insight the scan pushes at index i, if any, given ema9 - ema21 at
\* i - 1 and at i
Cross(i, prevDiff, currDiff) ==
  IF FLe(prevDiff, Zero) /\ FGt(currDiff, Zero)
  THEN << [id |-> <<"bullish-cross", i>>,
           title |-> <<"Short-term bullish transition">>,
           confidence |-> "medium",
           startIndex |-> i - 1, endIndex |-> i,
           direction |-> "bullish"] >>
  ELSE IF FGe(prevDiff, Zero) /\ FLt(currDiff, Zero)
  THEN << [id |-> <<"bearish-cross", i>>,
           title |-> <<"Short-term bearish transition">>,
           confidence |-> "medium",
           startIndex |-> i - 1, endIndex |-> i,
           direction |-> "bearish"] >>
  ELSE <<>>

CrossAt(points, ema9, ema21, i) ==
  Cross(i, FSub(At(ema9, i - 1), At(ema21, i - 1)),
           FSub(At(ema9, i), At(ema21, i)))

RECURSIVE ScanCrosses(_, _, _, _, _)
ScanCrosses(points, ema9, ema21, i, insights) ==
  IF i >= Len(points) THEN insights
  ELSE ScanCrosses(points, ema9, ema21, i + 1,
                   insights \o CrossAt(points, ema9, ema21, i))

AllTrendShifts(points, ema9, ema21) == ScanCrosses(points, ema9, ema21, 1, <<>>)

\* the first MAX_TREND_SHIFTS transitions kept instead of the last
detectTrendShifts_KeepFirst(points, ema9, ema21) ==
  Slice(AllTrendShifts(points, ema9, ema21), 0, MAX_TREND_SHIFTS)

detectTrendShifts(points, ema9, ema21) ==
  SliceLast(AllTrendShifts(points, ema9, ema21), MAX_TREND_SHIFTS)

COMPRESSION_MIN_POINTS == 20
COMPRESSION_WINDOW == 10
BREAKOUT_OFFSET == 3
BREAKOUT_THRESHOLD == Dec(8, 10)

FMax(a, b) == IF FGt(b, a) THEN b ELSE a
FMin(a, b) == IF FLt(b, a) THEN b ELSE a

\* Math.max(...xs), Math.min(...xs) for non-empty xs
RECURSIVE MaxOf(_)
MaxOf(xs) == IF Len(xs) = 1 THEN xs[1] ELSE FMax(xs[1], MaxOf(Tail(xs)))

RECURSIVE MinOf(_)
MinOf(xs) == IF Len(xs) = 1 THEN xs[1] ELSE FMin(xs[1], MinOf(Tail(xs)))

Highs(points) == [j \in 1..Len(points) |-> points[j].high]
Lows(points) == [j \in 1..Len(points) |-> points[j].low]

\* the range of the window that ends just before index i, relative to close[i]
WindowRange(points, i) ==
  LET windowPoints == Slice(points, i - COMPRESSION_WINDOW, i)
  IN  FDiv(FSub(MaxOf(Highs(windowPoints)), MinOf(Lows(windowPoints))),
           At(points, i).close)

\* a later window of equal range replaces the running minimum
Tighter_KeepLast(best, i, windowRange) ==
  IF best.minRange = Infinity \/ FLe(windowRange, best.minRange)
  THEN [minRange |-> windowRange, minIndex |-> i]
  ELSE best

\* the running minimum after the window at i; minRange starts at Infinity,
\* which every range is below
Tighter(best, i, windowRange) ==
  IF best.minRange = Infinity \/ FLt(windowRange, best.minRange)
  THEN [minRange |-> windowRange, minIndex |-> i]
  ELSE best

RECURSIVE ScanRanges(_, _, _)
ScanRanges(points, i, best) ==
  IF i >= Len(points) THEN best
  ELSE ScanRanges(points, i + 1, Tighter(best, i, WindowRange(points, i)))

TightestWindow(points) ==
  ScanRanges(points, COMPRESSION_WINDOW, [minRange |-> Infinity, minIndex |-> 0])

\* the breakout measured at the tightest window itself
BreakoutIndex_NoOffset(points, minIndex) == minIndex

BreakoutIndex(points, minIndex) ==
  IF Len(points) - 1 < minIndex + BREAKOUT_OFFSET
  THEN Len(points) - 1 ELSE minIndex + BREAKOUT_OFFSET

\* the insight emitted whatever the size of the breakout
CompressionInsight_NoThreshold(minIndex, breakoutIndex, changePct) ==
  << [id |-> <<"compression", breakoutIndex>>,
      title |-> <<"Tight-range expansion">>,
      confidence |-> toConfidence(changePct),
      startIndex |-> minIndex,
      endIndex |-> breakoutIndex,
      changePct |-> changePct,
      direction |-> IF FGe(changePct, Zero) THEN "bullish" ELSE "bearish"] >>

\* the insight for a breakout of changePct, if it is large enough
CompressionInsight(minIndex, breakoutIndex, changePct) ==
  IF FLt(FAbs(changePct), BREAKOUT_THRESHOLD) THEN <<>>
  ELSE << [id |-> <<"compression", breakoutIndex>>,
           title |-> <<"Tight-range expansion">>,
           confidence |-> toConfidence(changePct),
           startIndex |-> minIndex,
           endIndex |-> breakoutIndex,
           changePct |-> changePct,
           direction |-> IF FGe(changePct, Zero) THEN "bullish"
                         ELSE "bearish"] >>

BreakoutAt(points, minIndex, breakoutIndex) ==
  CompressionInsight(minIndex, breakoutIndex,
                     PctChange(At(points, breakoutIndex).close,
                               At(points, minIndex).close))

BreakoutFrom(points, minIndex) ==
  BreakoutAt(points, minIndex, BreakoutIndex(points, minIndex))

detectCompressionBreakout(points) ==
  IF Len(points) < COMPRESSION_MIN_POINTS THEN <<>>
  ELSE BreakoutFrom(points, TightestWindow(points).minIndex)

BIAS_THRESHOLD == Dec(6, 10)

\* the session's range as a percentage of its low
RangePct(sessionHigh, sessionLow) ==
  FMul(FDiv(FSub(sessionHigh, sessionLow), sessionLow), Hundred)

Bias(changePct) ==
  IF FGt(changePct, BIAS_THRESHOLD) THEN "bullish"
  ELSE IF FLt(changePct, FNeg(BIAS_THRESHOLD)) THEN "bearish"
  ELSE "balanced"

BiasText(bias) ==
  IF bias = "bullish"
  THEN "Flow shows a constructive bias with buyers pressing the tape."
  ELSE IF bias = "bearish"
  THEN "Supply dominated the session with persistent offer absorption."
  ELSE "Auction remained rotational with neither side in clear control."

\* the bias sentence, then the numbers the template renders
Narrative(changePct, sessionHigh, sessionLow) ==
  <<BiasText(Bias(changePct)), changePct, RangePct(sessionHigh, sessionLow),
    sessionHigh, sessionLow>>

\* the fallback taken only for no points at all
buildNarrative_OnlyEmpty(points) ==
  IF Len(points) < 1 THEN <<"Insufficient data to build a narrative.">>
  ELSE Narrative(PctChange(At(points, Len(points) - 1).close,
                           At(points, 0).close),
                 MaxOf(Highs(points)), MinOf(Lows(points)))

buildNarrative(points) ==
  IF Len(points) < 2 THEN <<"Insufficient data to build a narrative.">>
  ELSE Narrative(PctChange(At(points, Len(points) - 1).close,
                           At(points, 0).close),
                 MaxOf(Highs(points)), MinOf(Lows(points)))

RECURSIVE SumVolume(_, _, _)
SumVolume(points, i, sum) ==
  IF i >= Len(points) THEN sum
  ELSE SumVolume(points, i + 1, FAdd(sum, At(points, i).volume))

MAX_INSIGHTS == 6

\* the concatenation, never cut
CapInsights_NoCap(bigMoveInsights, trendInsights, compressionInsights) ==
  bigMoveInsights \o trendInsights \o compressionInsights

\* the trend-shift insights spread twice
CapInsights_TrendTwice(bigMoveInsights, trendInsights, compressionInsights) ==
  Slice(bigMoveInsights \o trendInsights \o trendInsights \o compressionInsights,
        0, MAX_INSIGHTS)

\* keeps the last MAX_INSIGHTS insights instead of the first
CapInsights_KeepLast(bigMoveInsights, trendInsights, compressionInsights) ==
  SliceLast(bigMoveInsights \o trendInsights \o compressionInsights, MAX_INSIGHTS)

\* [...bigMoveInsights, ...trendInsights, ...compressionInsights].slice(0, 6)
CapInsights(bigMoveInsights, trendInsights, compressionInsights) ==
  Slice(bigMoveInsights \o trendInsights \o compressionInsights, 0, MAX_INSIGHTS)

\* the early return taken for series of up to one point
IsEmptyInput_UpToOne(points) == Len(points) <= 1

\* points.length === 0
IsEmptyInput(points) == Len(points) = 0

Stats(points, sessionHigh, sessionLow) ==
  [rangePct |-> RangePct(sessionHigh, sessionLow),
   avgVolume |-> FDiv(SumVolume(points, 0, Zero), FromInt(Len(points))),
   sessionChangePct |-> PctChange(At(points, Len(points) - 1).close,
                                  At(points, 0).close),
   sessionHigh |-> sessionHigh,
   sessionLow |-> sessionLow]

Summary(points, ema9, ema21, bigMoves) ==
  [narrative |-> buildNarrative(points),
   stats |-> Stats(points, MaxOf(Highs(points)), MinOf(Lows(points))),
   insights |-> CapInsights(bigMoves.insights,
                            detectTrendShifts(points, ema9, ema21),
                            detectCompressionBreakout(points)),
   signals |-> bigMoves.signals,
   ema9 |-> ema9,
   ema21 |-> ema21]

analyzeIntradayData(points) ==
  IF IsEmptyInput(points)
  THEN [narrative |-> <<"No intraday prints were returned from the data source.">>,
        stats |-> [rangePct |-> Zero, avgVolume |-> Zero, sessionChangePct |-> Zero,
                   sessionHigh |-> Zero, sessionLow |-> Zero],
        insights |-> <<>>, signals |-> <<>>, ema9 |-> <<>>, ema21 |-> <<>>]
  ELSE Summary(points, calculateEMA(points, 9), calculateEMA(points, 21),
               detectBigMoves(points))

----------------------------------------------------------------------------
(* The page holds the latest series in `points` and derives `analysis`     *)
(* from it (useMemo over analyzeIntradayData).  The data route delivers    *)
(* the provider's samples in time order, one per minute, and filters out   *)
(* a sample whose close or volume is null; `cursor` counts the samples the *)
(* provider has produced.  A fetch that fails empties the series.  `scan`  *)
(* keeps the values the detectors' loops compute at each index (changePct  *)
(* of the big-move scan, range of the compression scan), which the code    *)
(* discards.                                                               *)
(*                                                                         *)
(* The page's other state is `range`, `interval`, `reloadTick`, `loading`, *)
(* `error` (the string "null" stands for null) and `lastUpdated` (dates    *)
(* are kept by their order: 0 stands for null, n for the n-th date read).  *)
(* `requests` lists the runs of the fetch effect in the order they         *)
(* started, each with its controller's aborted flag and the await it is    *)
(* suspended at; `effectDeps` is the dependency array of the last run      *)
(* (empty before the first) and `mounted` tells whether the page is        *)
(* mounted.                                                                *)

VARIABLES points, analysis, scan, cursor,
          range, interval, reloadTick, loading, error, lastUpdated,
          requests, effectDeps, mounted

pageVars ==
  <<range, interval, reloadTick, loading, error, lastUpdated,
    requests, effectDeps, mounted>>

vars == <<points, analysis, scan, cursor, pageVars>>

\* the useState initial values of the page, before its first effect runs
PageInit ==
  /\ range = "5d"
  /\ interval = "5m"
  /\ reloadTick = 0
  /\ loading = TRUE
  /\ error = "null"
  /\ lastUpdated = 0
  /\ requests = <<>>
  /\ effectDeps = <<>>
  /\ mounted = TRUE

MaxLen == 5
BasePrice == 100

\* the prices a sample can close at
Prices == {FromInt(BasePrice), FromInt(BasePrice + 1), FromInt(BasePrice + 2)}

Volume == FromInt(1000)

\* the candle that follows `series`: it opens at the previous close
NextPoint(series, minute, c) ==
  LET open == IF series = <<>> THEN c ELSE series[Len(series)].close
  IN  [timestamp |-> 60 * minute,
       open |-> open, high |-> FMax(open, c), low |-> FMin(open, c),
       close |-> c, volume |-> Volume]

LoopValues(series) ==
  [changePct |->
     [i \in BIG_MOVE_LOOKBACK..(Len(series) - 1) |->
        PctChange(At(series, i).close, At(series, i - BIG_MOVE_LOOKBACK).close)],
   range |->
     [i \in (IF Len(series) < COMPRESSION_MIN_POINTS THEN {}
             ELSE COMPRESSION_WINDOW..(Len(series) - 1)) |->
        WindowRange(series, i)]]

Init ==
  /\ points = <<>>
  /\ cursor = 0
  /\ analysis = analyzeIntradayData(<<>>)
  /\ scan = LoopValues(<<>>)
  /\ PageInit

\* the next sample closes at c and reaches the page
Deliver(c) ==
  /\ points' = Append(points, NextPoint(points, cursor, c))
  /\ cursor' = cursor + 1
  /\ analysis' = analyzeIntradayData(points')
  /\ scan' = LoopValues(points')
  /\ UNCHANGED pageVars

\* the next sample has a null close or volume: the route filters it out
Skip ==
  /\ cursor' = cursor + 1
  /\ UNCHANGED <<points, analysis, scan, pageVars>>

\* a fetch fails: the page empties its series (setPoints([]))
FetchFailed ==
  /\ points' = <<>>
  /\ analysis' = analyzeIntradayData(points')
  /\ scan' = LoopValues(points')
  /\ UNCHANGED <<cursor, pageVars>>

Next ==
  \/ \E c \in Prices : cursor < MaxLen /\ Deliver(c)
  \/ FetchFailed

Spec == Init /\ [][Next]_vars

----------------------------------------------------------------------------
(* Sessions that open quiet: the first sample, then a flat stretch, then   *)
(* free ticks between two price levels.                                    *)

QuietLen == 14
MaxLongLen == 20

LongPrices == {FromInt(BasePrice), FromInt(BasePrice + 1)}

RECURSIVE Quiet(_, _)
Quiet(series, c) ==
  IF Len(series) >= QuietLen THEN series
  ELSE Quiet(Append(series, NextPoint(series, Len(series), c)), c)

WarmUps ==
  {Quiet(<<NextPoint(<<>>, 0, c0)>>, c1) : c0 \in LongPrices, c1 \in LongPrices}

InitLong ==
  /\ points \in WarmUps
  /\ cursor = Len(points)
  /\ analysis = analyzeIntradayData(points)
  /\ scan = LoopValues(points)
  /\ PageInit

NextLong == \E c \in LongPrices : Len(points) < MaxLongLen /\ Deliver(c)

SpecLong == InitLong /\ [][NextLong]_vars

----------------------------------------------------------------------------
(* Sessions that never go quiet: flat but for one tick at the index every  *)
(* 10-sample window of a 20-sample series contains, then free ticks.       *)

SpikeIndex == COMPRESSION_WINDOW - 1

RECURSIVE Spiked(_, _, _)
Spiked(series, c0, c1) ==
  IF Len(series) >= QuietLen THEN series
  ELSE Spiked(Append(series,
                     NextPoint(series, Len(series),
                               IF Len(series) = SpikeIndex THEN c1 ELSE c0)),
              c0, c1)

SpikedWarmUps == {Spiked(<<>>, c0, c1) : c0 \in LongPrices, c1 \in LongPrices}

InitSpike ==
  /\ points \in SpikedWarmUps
  /\ cursor = Len(points)
  /\ analysis = analyzeIntradayData(points)
  /\ scan = LoopValues(points)
  /\ PageInit

NextSpike == \E c \in LongPrices : Len(points) < MaxLongLen /\ Deliver(c)

SpecSpike == InitSpike /\ [][NextSpike]_vars

----------------------------------------------------------------------------
(* Very short sessions of arbitrary candles: any open and close between    *)
(* the candle's low and high, two volumes.                                 *)

MaxCandles == 2

Volumes == {Volume, FAdd(Volume, Volume)}

Candles ==
  {candle \in [open : LongPrices, high : LongPrices, low : LongPrices,
                close : LongPrices, volume : Volumes] :
     /\ FLe(candle.low, candle.open) /\ FLe(candle.open, candle.high)
     /\ FLe(candle.low, candle.close) /\ FLe(candle.close, candle.high)}

\* the next sample is the given candle
DeliverCandle(candle) ==
  /\ points' = Append(points,
                      [timestamp |-> 60 * cursor,
                       open |-> candle.open, high |-> candle.high,
                       low |-> candle.low, close |-> candle.close,
                       volume |-> candle.volume])
  /\ cursor' = cursor + 1
  /\ analysis' = analyzeIntradayData(points')
  /\ scan' = LoopValues(points')
  /\ UNCHANGED pageVars

NextCandles == \E candle \in Candles : Len(points) < MaxCandles /\ DeliverCandle(candle)

SpecCandles == Init /\ [][NextCandles]_vars

----------------------------------------------------------------------------
(* The spec's worked scenario: the provider's tape closes at 100, 100.2,   *)
(* 100.4, 100.7, 100.5, 101.9; each sample reaches the page or is filtered *)
(* out by the route.                                                       *)

ScenarioCloses ==
  << Dec(1000, 10), Dec(1002, 10), Dec(1004, 10),
     Dec(1007, 10), Dec(1005, 10), Dec(1019, 10) >>

NextScenario ==
  \/ cursor < Len(ScenarioCloses) /\ Deliver(ScenarioCloses[cursor + 1])
  \/ cursor < Len(ScenarioCloses) /\ Skip

SpecScenario == Init /\ [][NextScenario]_vars

----------------------------------------------------------------------------
(* The page's fetch effect.  A change of range, interval or reloadTick     *)
(* re-renders the page; the effect then runs again: the cleanup of the     *)
(* previous run aborts its controller and a new run of fetchIntraday       *)
(* starts.  A run is suspended at `await fetch` ("fetch"), at `await       *)
(* response.json()` of an ok response ("json") or of an error response     *)
(* ("detail"); it ends having passed the aborted checks ("done") or having *)
(* been stopped by them ("dropped").  An await of an aborted run may still *)
(* resolve when the response arrived before the abort.                     *)

MaxRequests == 3

Ranges == {"1d", "5d"}
Intervals == {"5m", "15m"}

\* the bodies a response can carry
Payloads ==
  { <<>> } \cup
  { <<NextPoint(<<>>, 0, c)>> : c \in LongPrices }

\* the error bodies of a response that is not ok, "none" for a body
\* without an error field
Details == {"none", "Upstream feed unavailable"}

Deps == <<interval, range, reloadTick>>

\* the effect's cleanup: the controller of the run it belongs to is aborted
Cleanup(reqs) ==
  [r \in DOMAIN reqs |->
     IF r = Len(reqs) THEN [reqs[r] EXCEPT !.aborted = TRUE] ELSE reqs[r]]

Moved(r, pc) == [requests EXCEPT ![r].pc = pc]

setRange(value) ==
  /\ mounted
  /\ range' = value
  /\ UNCHANGED <<points, analysis, scan, cursor, interval, reloadTick,
                 loading, error, lastUpdated, requests, effectDeps, mounted>>

setInterval(value) ==
  /\ mounted
  /\ interval' = value
  /\ UNCHANGED <<points, analysis, scan, cursor, range, reloadTick,
                 loading, error, lastUpdated, requests, effectDeps, mounted>>

\* the Retry button, rendered while there is an error
Retry ==
  /\ mounted
  /\ error # "null"
  /\ reloadTick < MaxRequests
  /\ reloadTick' = reloadTick + 1
  /\ UNCHANGED <<points, analysis, scan, cursor, range, interval,
                 loading, error, lastUpdated, requests, effectDeps, mounted>>

\* the effect runs after a render whose dependencies differ from the last
\* run's: cleanup of the previous run, then fetchIntraday up to await fetch
RunEffect ==
  /\ mounted
  /\ effectDeps # Deps
  /\ Len(requests) < MaxRequests
  /\ requests' = Append(Cleanup(requests), [aborted |-> FALSE, pc |-> "fetch"])
  /\ loading' = TRUE
  /\ error' = "null"
  /\ effectDeps' = Deps
  /\ UNCHANGED <<points, analysis, scan, cursor, range, interval,
                 reloadTick, lastUpdated, mounted>>

\* the page unmounts: the cleanup of the last run aborts its controller
Unmount ==
  /\ mounted
  /\ mounted' = FALSE
  /\ requests' = Cleanup(requests)
  /\ UNCHANGED <<points, analysis, scan, cursor, range, interval,
                 reloadTick, loading, error, lastUpdated, effectDeps>>

\* await fetch resolves with a response
FetchResolved(r, ok) ==
  /\ requests[r].pc = "fetch"
  /\ requests' = Moved(r, IF ok THEN "json" ELSE "detail")
  /\ UNCHANGED <<points, analysis, scan, cursor, range, interval,
                 reloadTick, loading, error, lastUpdated, effectDeps, mounted>>

\* the catch and finally blocks, every check of the aborted flag left out
Catch_IgnoreAbort(r, message) ==
  /\ requests' = Moved(r, "done")
  /\ error' = message
  /\ points' = <<>>
  /\ analysis' = analyzeIntradayData(points')
  /\ scan' = LoopValues(points')
  /\ loading' = FALSE
  /\ UNCHANGED <<cursor, range, interval, reloadTick, lastUpdated,
                 effectDeps, mounted>>

\* the catch and finally blocks of run r, entered with an error `message`
Catch(r, message) ==
  IF requests[r].aborted
  THEN /\ requests' = Moved(r, "dropped")
       /\ UNCHANGED <<points, analysis, scan, cursor, range, interval,
                      reloadTick, loading, error, lastUpdated, effectDeps,
                      mounted>>
  ELSE /\ requests' = Moved(r, "done")
       /\ error' = message
       /\ points' = <<>>
       /\ analysis' = analyzeIntradayData(points')
       /\ scan' = LoopValues(points')
       /\ loading' = FALSE
       /\ UNCHANGED <<cursor, range, interval, reloadTick, lastUpdated,
                      effectDeps, mounted>>

\* await fetch rejects: a network failure, or the abort
FetchRejected(r) ==
  /\ requests[r].pc = "fetch"
  /\ Catch(r, IF requests[r].aborted THEN "The operation was aborted."
              ELSE "Failed to fetch")

\* the body of an ok response is parsed: the try block's tail and finally
JsonResolved(r, payload) ==
  /\ requests[r].pc = "json"
  /\ IF requests[r].aborted
     THEN /\ requests' = Moved(r, "dropped")
          /\ UNCHANGED <<points, analysis, scan, cursor, range, interval,
                         reloadTick, loading, error, lastUpdated, effectDeps,
                         mounted>>
     ELSE /\ requests' = Moved(r, "done")
          /\ points' = payload
          /\ analysis' = analyzeIntradayData(points')
          /\ scan' = LoopValues(points')
          /\ lastUpdated' = lastUpdated + 1
          /\ loading' = FALSE
          /\ UNCHANGED <<cursor, range, interval, reloadTick, error,
                         effectDeps, mounted>>

\* the body of an ok response cannot be read: a parse failure, or the abort
JsonRejected(r) ==
  /\ requests[r].pc = "json"
  /\ Catch(r, IF requests[r].aborted THEN "The operation was aborted."
              ELSE "Unexpected end of JSON input")

\* the body of an error response is read (an unreadable one counts as {})
\* and the error is thrown
DetailResolved(r, detail) ==
  /\ requests[r].pc = "detail"
  /\ Catch(r, IF detail = "none" THEN "Unable to load intraday feed."
              ELSE detail)

NextHome ==
  \/ \E value \in Ranges : setRange(value)
  \/ \E value \in Intervals : setInterval(value)
  \/ Retry
  \/ RunEffect
  \/ Unmount
  \/ \E r \in DOMAIN requests : \E ok \in BOOLEAN : FetchResolved(r, ok)
  \/ \E r \in DOMAIN requests : FetchRejected(r)
  \/ \E r \in DOMAIN requests : \E payload \in Payloads : JsonResolved(r, payload)
  \/ \E r \in DOMAIN requests : JsonRejected(r)
  \/ \E r \in DOMAIN requests : \E detail \in Details : DetailResolved(r, detail)

SpecHome == Init /\ [][NextHome]_vars

----------------------------------------------------------------------------
(* Claims.                                                                 *)

N == Len(points)

Closes(series) == [j \in 1..Len(series) |-> series[j].close]

IsBigMove(ins) == ins.id[1] = "big-move"
IsTrendShift(ins) == ins.id[1] \in {"bullish-cross", "bearish-cross"}
IsCompression(ins) == ins.id[1] = "compression"

\* 1, 2, 3: the detector an insight comes from, in priority order
Category(ins) ==
  IF IsBigMove(ins) THEN 1 ELSE IF IsTrendShift(ins) THEN 2 ELSE 3

\* what the three detectors return for the current series
Detected ==
  detectBigMoves(points).insights
    \o detectTrendShifts(points, analysis.ema9, analysis.ema21)
    \o detectCompressionBreakout(points)

\* C1: analyzeIntradayData returns at most 6 insights, and they are the first
\* 6 (or all) of [big-move insights, trend-shift insights, compression
\* insight]: no insight precedes one of a higher-priority detector.
C1_CappedInPriorityOrder ==
  \A detected \in {Detected} :
    /\ Len(analysis.insights) <= 6
    /\ \A j, k \in 1..Len(analysis.insights) :
         j < k => Category(analysis.insights[j]) <= Category(analysis.insights[k])
    /\ Len(analysis.insights) = (IF Len(detected) < 6 THEN Len(detected) ELSE 6)
    /\ \A j \in 1..Len(analysis.insights) : analysis.insights[j] = detected[j]

\* the cap cuts the list: seven insights were detected, the last of them the
\* compression insight, and six are returned, trend shifts among them
C1_Witness ==
  /\ Len(analysis.insights) = 6
  /\ \E j \in 1..6 : IsTrendShift(analysis.insights[j])
  /\ \E detected \in {Detected} :
       Len(detected) = 7 /\ IsCompression(detected[7])

\* an insight the detectors produced is in the returned list
Kept(ins) == \E m \in 1..Len(analysis.insights) : analysis.insights[m].id = ins.id

\* C2 (as stated): when the cap drops trend-shift insights, the dropped ones
\* are the least recent: every dropped trend shift has a smaller crossover
\* index than every kept one.
C2_DropsLeastRecent ==
  \A detected \in {Detected} :
    \A j, k \in 1..Len(detected) :
      ( /\ IsTrendShift(detected[j]) /\ ~Kept(detected[j])
        /\ IsTrendShift(detected[k]) /\ Kept(detected[k]) )
      => detected[j].endIndex < detected[k].endIndex

\* C2 (amended): the cap drops nothing but the compression insight and trend
\* shifts, the compression insight first, and the dropped trend shifts are
\* the most recent: every dropped trend shift has a larger crossover index
\* than every kept one.
C2_DropsMostRecent ==
  \A detected \in {Detected} :
    /\ \A j \in 1..Len(detected) :
         ~Kept(detected[j]) =>
           /\ ~IsBigMove(detected[j])
           /\ \A k \in 1..Len(detected) :
                IsCompression(detected[k]) => ~Kept(detected[k])
    /\ \A j, k \in 1..Len(detected) :
         ( /\ IsTrendShift(detected[j]) /\ ~Kept(detected[j])
           /\ IsTrendShift(detected[k]) /\ Kept(detected[k]) )
         => detected[j].endIndex > detected[k].endIndex

\* four big moves and three trend shifts were detected: a trend shift is
\* dropped and two are kept
C2_Witness ==
  \E detected \in {Detected} :
    /\ Len(detected) > 6
    /\ \E j \in 1..Len(detected) : IsTrendShift(detected[j]) /\ ~Kept(detected[j])
    /\ \E k \in 1..Len(detected) : IsTrendShift(detected[k]) /\ Kept(detected[k])

BigMoveInsights == SelectSeq(analysis.insights, IsBigMove)

\* the page holds the whole scenario tape, nothing filtered out
ScenarioDelivered == Closes(points) = ScenarioCloses

\* C3 (as stated): on the scenario tape detectBigMoves yields exactly one
\* big-move insight: bullish, medium confidence, spanning indices 2..5.
C3_OneBigMove ==
  ScenarioDelivered =>
    /\ Len(BigMoveInsights) = 1
    /\ BigMoveInsights[1].direction = "bullish"
    /\ BigMoveInsights[1].confidence = "medium"
    /\ BigMoveInsights[1].startIndex = 2
    /\ BigMoveInsights[1].endIndex = 5

\* C3 (amended): on the scenario tape detectBigMoves yields exactly two
\* big-move insights: first the bullish, medium-confidence move over indices
\* 2..5, then the bullish, low-confidence move over indices 0..3 (100 to
\* 100.7 is 0.7%, above the 0.6 threshold).
C3_TwoBigMoves ==
  ScenarioDelivered =>
    /\ Len(BigMoveInsights) = 2
    /\ BigMoveInsights[1].direction = "bullish"
    /\ BigMoveInsights[1].confidence = "medium"
    /\ BigMoveInsights[1].startIndex = 2
    /\ BigMoveInsights[1].endIndex = 5
    /\ BigMoveInsights[2].direction = "bullish"
    /\ BigMoveInsights[2].confidence = "low"
    /\ BigMoveInsights[2].startIndex = 0
    /\ BigMoveInsights[2].endIndex = 3

C3_Witness ==
  /\ ScenarioDelivered
  /\ cursor = Len(ScenarioCloses)
  /\ Len(analysis.signals) = 2

\* the indices at which the big-move scan sees a move of 0.6% or more
Candidates == {i \in DOMAIN scan.changePct : FGe(FAbs(scan.changePct[i]), Dec(6, 10))}

\* move a ranks before move b: larger magnitude, or equal magnitude and
\* found at the smaller index
RanksBefore(pctA, indexA, pctB, indexB) ==
  \/ FGt(FAbs(pctA), FAbs(pctB))
  \/ FAbs(pctA) = FAbs(pctB) /\ indexA < indexB

\* C4: detectBigMoves returns at most 4 insights and 4 signals; each returned
\* move spans 3 samples and has |changePct| >= 0.6; the returned moves are
\* the top-ranked candidates, by magnitude and then by smaller index, in
\* rank order, ties at the cut included.
C4_TopMovesRanked ==
  \A moves \in {BigMoveInsights} :
    /\ Len(moves) <= 4
    /\ Len(analysis.signals) <= 4
    /\ \A j \in 1..Len(moves) :
         /\ moves[j].endIndex \in Candidates
         /\ moves[j].startIndex = moves[j].endIndex - 3
         /\ moves[j].changePct =
              PctChange(At(points, moves[j].endIndex).close,
                        At(points, moves[j].endIndex - 3).close)
         /\ FGe(FAbs(moves[j].changePct), Dec(6, 10))
    /\ \A j, k \in 1..Len(moves) :
         j < k => RanksBefore(moves[j].changePct, moves[j].endIndex,
                              moves[k].changePct, moves[k].endIndex)
    /\ \A i \in Candidates :
         (\A j \in 1..Len(moves) : moves[j].endIndex # i) =>
           /\ Len(moves) = 4
           /\ \A j \in 1..Len(moves) :
                RanksBefore(moves[j].changePct, moves[j].endIndex,
                            scan.changePct[i], i)

\* more than four candidates, and the cut at 4 falls inside a tie: a
\* candidate left out has the magnitude of the last move returned
C4_Witness ==
  /\ Len(BigMoveInsights) = 4
  /\ \E i \in Candidates :
       /\ \A j \in 1..4 : BigMoveInsights[j].endIndex # i
       /\ FAbs(scan.changePct[i]) = FAbs(BigMoveInsights[4].changePct)

\* ema9 - ema21 at index i of the current result
Diff(i) == FSub(At(analysis.ema9, i), At(analysis.ema21, i))

BullishAt(i) == FLe(Diff(i - 1), Zero) /\ FGt(Diff(i), Zero)
BearishAt(i) == FGe(Diff(i - 1), Zero) /\ FLt(Diff(i), Zero)

\* the indices at which ema9 - ema21 changes sign
Transitions == {i \in 1..(N - 1) : BullishAt(i) \/ BearishAt(i)}

TrendShifts == detectTrendShifts(points, analysis.ema9, analysis.ema21)

\* C5: detectTrendShifts returns at most 3 insights; the insight with span
\* [i-1, i] marks a sign change of ema9 - ema21 between i-1 and i, bullish
\* when the difference goes from <= 0 to > 0 and bearish when it goes from
\* >= 0 to < 0; the insights are the transitions with the 3 largest
\* indices, in increasing index order.
C5_LatestThreeTransitions ==
  \A shifts \in {TrendShifts}, all \in {Transitions} :
    /\ Len(shifts) <= 3
    /\ \A j \in 1..Len(shifts) :
         /\ shifts[j].startIndex = shifts[j].endIndex - 1
         /\ shifts[j].endIndex \in all
         /\ shifts[j].direction = "bullish" => BullishAt(shifts[j].endIndex)
         /\ shifts[j].direction = "bearish" => BearishAt(shifts[j].endIndex)
         /\ shifts[j].direction \in {"bullish", "bearish"}
    /\ \A j, k \in 1..Len(shifts) :
         j < k => shifts[j].endIndex < shifts[k].endIndex
    /\ {shifts[j].endIndex : j \in 1..Len(shifts)} =
         {i \in all : Cardinality({k \in all : k > i}) < 3}

\* more than three transitions in the series, of both directions, three
\* returned
C5_Witness ==
  /\ Cardinality(Transitions) > 3
  /\ Len(TrendShifts) = 3
  /\ \E j, k \in 1..3 : TrendShifts[j].direction # TrendShifts[k].direction

\* the first index whose window range is the smallest of the scan
TightestIndex ==
  CHOOSE i \in DOMAIN scan.range :
    \A k \in DOMAIN scan.range :
      \/ FLt(scan.range[i], scan.range[k])
      \/ scan.range[i] = scan.range[k] /\ i <= k

Compression == detectCompressionBreakout(points)

\* C6: detectCompressionBreakout returns 0 or 1 insights; none for fewer
\* than 20 points; for 20 points or more, with the change from the close
\* at minIndex to the close at breakoutIndex = min(n - 1, minIndex + 3),
\* none when |changePct| < 0.8 and otherwise exactly one, whose id is
\* compression-<breakoutIndex>.
C6_CompressionBreakout ==
  \A out \in {Compression} :
    /\ Len(out) <= 1
    /\ N < 20 => out = <<>>
    /\ N >= 20 =>
         \A minIndex \in {TightestIndex} :
           \A breakoutIndex \in {IF N - 1 < minIndex + 3 THEN N - 1
                                 ELSE minIndex + 3} :
             \A changePct \in {PctChange(At(points, breakoutIndex).close,
                                         At(points, minIndex).close)} :
               IF FLt(FAbs(changePct), Dec(8, 10))
               THEN out = <<>>
               ELSE /\ Len(out) = 1
                    /\ out[1].id = <<"compression", breakoutIndex>>
                    /\ out[1].startIndex = minIndex
                    /\ out[1].endIndex = breakoutIndex
                    /\ out[1].changePct = changePct

\* twenty points whose tightest window is followed by a move of 0.8% or more
C6_Witness ==
  /\ N >= 20
  /\ Len(Compression) = 1
  /\ Compression[1].endIndex = Compression[1].startIndex + 3

\* C7: for the empty series analyzeIntradayData returns the no-data
\* narrative, five zero stats and empty insights, signals, ema9 and ema21;
\* for every other length the EMAs, the detectors and the stats are
\* computed from the points.
C7_EmptyInputOnly ==
  /\ N = 0 =>
       /\ analysis.narrative =
            <<"No intraday prints were returned from the data source.">>
       /\ analysis.stats =
            [rangePct |-> Zero, avgVolume |-> Zero, sessionChangePct |-> Zero,
             sessionHigh |-> Zero, sessionLow |-> Zero]
       /\ analysis.insights = <<>>
       /\ analysis.signals = <<>>
       /\ analysis.ema9 = <<>>
       /\ analysis.ema21 = <<>>
  /\ N > 0 =>
       /\ analysis.narrative #
            <<"No intraday prints were returned from the data source.">>
       /\ Len(analysis.ema9) = N
       /\ Len(analysis.ema21) = N
       /\ analysis.stats.sessionHigh = MaxOf(Highs(points))
       /\ analysis.stats.sessionLow = MinOf(Lows(points))
       /\ analysis.stats.avgVolume = Volume
       /\ Len(analysis.signals) = Cardinality(Candidates)
            \/ Len(analysis.signals) = 4

\* a failed fetch has emptied a series and the empty result is on the page
C7_Witness ==
  /\ cursor > 0
  /\ N = 0
  /\ analysis.insights = <<>>
  /\ analysis.stats.sessionHigh = Zero

\* ema is the EMA of the current closes for the given span: same length,
\* seeded with the first close, each later element
\* close[i] * k + ema[i-1] * (1 - k) with k = 2 / (span + 1)
IsEmaOfPoints(ema, span) ==
  \A k \in {FDiv(FromInt(2), FromInt(span + 1))} :
    \A rest \in {FSub(FromInt(1), k)} :
      /\ Len(ema) = N
      /\ At(ema, 0) = At(points, 0).close
      /\ \A i \in 1..(N - 1) :
           At(ema, i) = FAdd(FMul(At(points, i).close, k),
                             FMul(At(ema, i - 1), rest))

\* C8: for a non-empty series ema9 and ema21 have the length of the input,
\* start at the first close, and follow the recurrence
\* ema[i] = close[i] * k + ema[i-1] * (1 - k), k = 2 / (span + 1), with
\* spans 9 and 21.
C8_EmaRecurrence ==
  N > 0 => IsEmaOfPoints(analysis.ema9, 9) /\ IsEmaOfPoints(analysis.ema21, 21)

\* a series whose closes move, so that the two EMAs lag the last close by
\* different amounts
C8_Witness ==
  /\ N >= 3
  /\ At(analysis.ema9, N - 1) # At(analysis.ema21, N - 1)
  /\ At(analysis.ema9, N - 1) # At(points, N - 1).close
  /\ At(analysis.ema9, N - 1) # At(analysis.ema9, N - 2)

\* every close of the current series is the same
IsConstantSeries == \A j \in 1..N : points[j].close = points[1].close

\* C9: for a constant-price series of length >= 2 both EMA series equal the
\* constant at every index, there are no big moves and no signals, no
\* trend-shift transitions, and the narrative opens with the balanced bias
\* sentence.
C9_ConstantSeries ==
  (N >= 2 /\ IsConstantSeries) =>
    /\ \A i \in 0..(N - 1) :
         /\ At(analysis.ema9, i) = points[1].close
         /\ At(analysis.ema21, i) = points[1].close
    /\ detectBigMoves(points).insights = <<>>
    /\ analysis.signals = <<>>
    /\ TrendShifts = <<>>
    /\ analysis.narrative[1] =
         "Auction remained rotational with neither side in clear control."

\* C10: each signal marker carries the timestamp and the close of one
\* input point, the point at the end index of a returned big move; the
\* trend-shift and compression detectors add no signals, so there are no
\* more signals than big moves.
C10_SignalsFromBigMoves ==
  /\ \A k \in 1..Len(analysis.signals) :
       \E i \in 0..(N - 1) :
         /\ analysis.signals[k].timestamp = At(points, i).timestamp
         /\ analysis.signals[k].price = At(points, i).close
         /\ i \in Candidates
         /\ \E j \in 1..Len(BigMoveInsights) : BigMoveInsights[j].endIndex = i
  /\ Len(analysis.signals) <= Cardinality(Candidates)
  /\ Len(analysis.signals) <= Len(BigMoveInsights)

\* four signals, for the four big moves returned, in a result where the
\* trend-shift and the compression detectors found insights too
C10_Witness ==
  /\ Len(analysis.signals) = 4
  /\ \E j \in 1..Len(analysis.insights) : IsTrendShift(analysis.insights[j])
  /\ Len(Compression) = 1

\* the decimal digits of n >= 0, as a template literal renders a number
RECURSIVE Decimal(_)
Decimal(n) == IF n < 10 THEN <<n>> ELSE Append(Decimal(n \div 10), n % 10)

\* the id string `<detector>-<index>`: its prefix, then the index's digits
RenderId(id) == <<id[1], "-">> \o Decimal(id[2])

\* C11: the ids of the returned insights (big-move-<endIndex>,
\* bullish-cross-<i> / bearish-cross-<i>, compression-<breakoutIndex>) are
\* pairwise distinct.
C11_DistinctIds ==
  \A j, k \in 1..Len(analysis.insights) :
    j # k => RenderId(analysis.insights[j].id) # RenderId(analysis.insights[k].id)

\* a full list in which a big move and a trend shift carry the same index
C11_Witness ==
  /\ Len(analysis.insights) = 6
  /\ \E j, k \in 1..6 :
       /\ IsBigMove(analysis.insights[j])
       /\ IsTrendShift(analysis.insights[k])
       /\ analysis.insights[j].id[2] = analysis.insights[k].id[2]
       /\ analysis.insights[k].id[2] >= 10

\* the 10 indices of the window that ends just before index i
Window(i) == (i - 10)..(i - 1)

\* the highest high and the lowest low of the window before i
WindowHigh(i) ==
  At(points, CHOOSE a \in Window(i) :
               \A k \in Window(i) : FLe(At(points, k).high, At(points, a).high)).high

WindowLow(i) ==
  At(points, CHOOSE b \in Window(i) :
               \A k \in Window(i) : FGe(At(points, k).low, At(points, b).low)).low

\* the minIndex the compression scan ends with
MinIndex == TightestWindow(points).minIndex

\* C12: with at least 20 points, the range scanned at i in [10, n-1] is
\* (max high - min low over points[i-10..i-1]) / close[i]; minIndex is the
\* smallest i at which it attains its minimum; the breakout is evaluated at
\* min(n-1, minIndex+3); an emitted insight has startIndex = minIndex and
\* endIndex = breakoutIndex.
C12_FirstTightestWindow ==
  N >= 20 =>
    \A minIndex \in {MinIndex} :
      /\ DOMAIN scan.range = 10..(N - 1)
      /\ \A i \in 10..(N - 1) :
           scan.range[i] =
             FDiv(FSub(WindowHigh(i), WindowLow(i)), At(points, i).close)
      /\ minIndex \in 10..(N - 1)
      /\ \A k \in 10..(N - 1) : FLe(scan.range[minIndex], scan.range[k])
      /\ \A k \in 10..(minIndex - 1) : FGt(scan.range[k], scan.range[minIndex])
      /\ BreakoutIndex(points, minIndex) =
           (IF minIndex + 3 > N - 1 THEN N - 1 ELSE minIndex + 3)
      /\ \A j \in 1..Len(Compression) :
           /\ Compression[j].startIndex = minIndex
           /\ Compression[j].endIndex = BreakoutIndex(points, minIndex)

\* the minimum range is attained at two windows or more, the first of them
\* less than 3 samples before the end, and an insight is emitted
C12_Witness ==
  /\ N >= 20
  /\ MinIndex + 3 > N - 1
  /\ \E k \in (MinIndex + 1)..(N - 1) : scan.range[k] = scan.range[MinIndex]
  /\ Len(Compression) = 1
  /\ Compression[1].endIndex = N - 1

\* C13: for a series of exactly one point analyzeIntradayData returns the
\* narrative "Insufficient data to build a narrative.", stats computed from
\* the point (sessionHigh its high, sessionLow its low, avgVolume its
\* volume, sessionChangePct 0), ema9 = ema21 = [its close], and no insights
\* and no signals.
C13_SinglePoint ==
  N = 1 =>
    /\ analysis.narrative = <<"Insufficient data to build a narrative.">>
    /\ analysis.stats.sessionHigh = points[1].high
    /\ analysis.stats.sessionLow = points[1].low
    /\ analysis.stats.avgVolume = points[1].volume
    /\ analysis.stats.sessionChangePct = Zero
    /\ analysis.ema9 = <<points[1].close>>
    /\ analysis.ema21 = <<points[1].close>>
    /\ analysis.insights = <<>>
    /\ analysis.signals = <<>>

\* one candle whose high, low and close all differ from one another or
\* from the default volume, with the fallback narrative on the page
C13_Witness ==
  /\ N = 1
  /\ points[1].high # points[1].low
  /\ points[1].close # points[1].high
  /\ points[1].volume # Volume
  /\ analysis.narrative = <<"Insufficient data to build a narrative.">>
  /\ analysis.stats.sessionHigh # analysis.stats.sessionLow

\* C14: the cap never removes a big-move insight: there are as many
\* signals as big-move insights in the returned list, and the k-th signal
\* goes with the k-th returned insight, which is a big move: the signal's
\* timestamp is that of the point at the insight's endIndex, and direction
\* and confidence are the same.
C14_SignalsMatchBigMoves ==
  /\ Len(analysis.signals) = Len(BigMoveInsights)
  /\ Len(analysis.signals) = Len(detectBigMoves(points).insights)
  /\ \A k \in 1..Len(analysis.signals) :
       /\ IsBigMove(analysis.insights[k])
       /\ analysis.signals[k].timestamp =
            At(points, analysis.insights[k].endIndex).timestamp
       /\ analysis.signals[k].direction = analysis.insights[k].direction
       /\ analysis.signals[k].confidence = analysis.insights[k].confidence

\* the cap has cut the list, and the four signals differ in direction and
\* in confidence
C14_Witness ==
  /\ Len(Detected) > 6
  /\ Len(analysis.signals) = 4
  /\ \E j, k \in 1..4 : analysis.signals[j].direction # analysis.signals[k].direction
  /\ \E j, k \in 1..4 : analysis.signals[j].confidence # analysis.signals[k].confidence

\* the length endIndex - startIndex allowed for an insight of each detector
SpanOk(ins) ==
  IF IsBigMove(ins) THEN ins.endIndex - ins.startIndex = 3
  ELSE IF IsTrendShift(ins) THEN ins.endIndex - ins.startIndex = 1
  ELSE ins.endIndex - ins.startIndex \in 1..3

\* C15: every returned insight has 0 <= startIndex < endIndex <= n-1, with
\* endIndex - startIndex = 3 for a big move, 1 for a trend shift and 1 to 3
\* for a compression insight; no compression insight is emitted when the
\* tightest window ends at the last point (where startIndex would equal
\* endIndex).
C15_InsightSpans ==
  /\ \A j \in 1..Len(analysis.insights) :
       /\ 0 <= analysis.insights[j].startIndex
       /\ analysis.insights[j].startIndex < analysis.insights[j].endIndex
       /\ analysis.insights[j].endIndex <= N - 1
       /\ SpanOk(analysis.insights[j])
  /\ \A j \in 1..Len(Compression) :
       /\ Compression[j].startIndex < Compression[j].endIndex
       /\ Compression[j].endIndex <= N - 1
  /\ (N >= 20 /\ MinIndex = N - 1) => Compression = <<>>

\* insights of the three detectors are returned together
C15_Witness ==
  /\ \E j \in 1..Len(analysis.insights) : IsCompression(analysis.insights[j])
  /\ \E j \in 1..Len(analysis.insights) : IsBigMove(analysis.insights[j])
  /\ \E j \in 1..Len(analysis.insights) : IsTrendShift(analysis.insights[j])

\* the state the runs of the fetch effect write
Written == <<points, lastUpdated, error, loading>>

\* run r moves on in this step
Advances(r) == requests'[r].pc # requests[r].pc

\* C16: a run of the fetch effect whose controller has been aborted never
\* changes points, lastUpdated, error or loading, whether its awaits
\* resolve or reject; every run but the most recently started one is
\* aborted, so only that one writes them; and when the most recent run
\* ends without having been aborted, loading is false.
C16_SupersededNeverWrites ==
  [][ /\ \A r \in DOMAIN requests :
           (Advances(r) /\ (requests[r].aborted \/ r # Len(requests)))
             => Written' = Written
      /\ \A r \in DOMAIN requests' :
           r # Len(requests') => requests'[r].aborted
      /\ \A r \in DOMAIN requests :
           (Advances(r) /\ requests'[r].pc \in {"done", "dropped"}
              /\ ~requests[r].aborted)
             => (r = Len(requests) /\ requests'[r].pc = "done" /\ ~loading')
    ]_vars

\* two superseded runs have ended, one after its fetch rejected and one
\* after its body was read, and the run that superseded them has delivered
\* its points
C16_Witness ==
  /\ Len(requests) = 3
  /\ requests[1].aborted /\ requests[1].pc = "dropped"
  /\ requests[2].aborted /\ requests[2].pc = "dropped"
  /\ ~requests[3].aborted /\ requests[3].pc = "done"
  /\ points # <<>>
  /\ lastUpdated = 1
  /\ error = "null"
  /\ ~loading

====
